---- MODULE Spec2Model ----
(***************************************************************************)
(* A model of rockuefort (src/rockuefort/__init__.py): the playlist query  *)
(* matcher, the extension de-duplicator, the result composer, the shuffle  *)
(* and the bounded-parallel render step.                                   *)
(*                                                                         *)
(* Strings are sequences of one-character strings; paths are sequences of  *)
(* tokens ("/" and "." are tokens of their own).  An optional value (gain, *)
(* crop, trim_positions) is <<>> for None and <<v>> for the value v.       *)
(***************************************************************************)
EXTENDS Integers, Sequences, FiniteSets, TLC

VARIABLES
    \* matches(value, attr_list) applied to one drawn input
    mValue, mAttr, mDone, mResult,
    \* filter_extensions(files) applied to one drawn input
    feFiles, feDone, feResult,
    \* load_playlist: get_results' loop, then shuffled and the flattening
    cache, entries, idx, results, log, pc, shuffle, out, final,
    \* render: the per-file tasks behind limit_semaphore, then empty and concat
    nFiles, task, proc, sem_value, renderPc,
    \* parse_entries: the loop over the lines of the playlist file
    lines, line_number, parsed, parseLog, parsePc

mVars == <<mValue, mAttr, mDone, mResult>>
feVars == <<feFiles, feDone, feResult>>
plVars == <<cache, entries, idx, results, log, pc, shuffle, out, final>>
rVars == <<nFiles, task, proc, sem_value, renderPc>>
pVars == <<lines, line_number, parsed, parseLog, parsePc>>
vars == <<mVars, feVars, plVars, rVars, pVars>>

(***************************************************************************)
(* Bounds of the model.                                                    *)
(***************************************************************************)
MaxValueLen == 3
MaxAttrs == 2
MaxPaths == 3
MaxEntries == 3
MaxFiles == 9
MaxLineLen == 5

(***************************************************************************)
(* Strings.                                                                *)
(***************************************************************************)
QUOTE == "\""
\* "\N{SNOWMAN}", U+2603
SNOWMAN == "SNOWMAN"

Chars == {"a", "A", "b", QUOTE, SNOWMAN}

\* str.lower() on one character
LowerChar(c) == IF c = "A" THEN "a" ELSE IF c = "B" THEN "b" ELSE c

\* str.lower()
Lower(s) == [k \in 1..Len(s) |-> LowerChar(s[k])]

\* sep.join(list)
RECURSIVE Join(_, _)
Join(list, sep) ==
    IF Len(list) = 0 THEN <<>>
    ELSE IF Len(list) = 1 THEN list[1]
    ELSE list[1] \o <<sep>> \o Join(Tail(list), sep)

\* "".join(list)
RECURSIVE JoinEmpty(_)
JoinEmpty(list) == IF Len(list) = 0 THEN <<>> ELSE list[1] \o JoinEmpty(Tail(list))

\* the operator `sub in s` on strings
IsSubstring(sub, s) ==
    \E k \in 0..(Len(s) - Len(sub)) : SubSeq(s, k + 1, k + Len(sub)) = sub

\* the operator `x in list`
In(x, list) == \E k \in 1..Len(list) : list[k] = x

StartsWith(s, c) == Len(s) >= 1 /\ s[1] = c
EndsWith(s, c) == Len(s) >= 1 /\ s[Len(s)] = c

\* value[1:-1]
Strip1(s) == SubSeq(s, 2, Len(s) - 1)

\* str.count(c)
Count(s, c) == Cardinality({k \in 1..Len(s) : s[k] = c})

SeqsUpTo(S, n) == UNION {[1..k -> S] : k \in 0..n}

(***************************************************************************)
(* matches                                                                 *)
(***************************************************************************)
\* A plausible slip: the quoted branch compares case-folded, like the other one.
matchesQuotedFolded(value, attr_list) ==
    IF value = <<>> THEN Len(attr_list) = 0
    ELSE IF StartsWith(value, QUOTE) /\ EndsWith(value, QUOTE)
         THEN In(Lower(Strip1(value)), [k \in 1..Len(attr_list) |-> Lower(attr_list[k])])
    ELSE IsSubstring(Lower(value), Lower(Join(attr_list, SNOWMAN)))

\* A plausible slip: "".join(attr_list), no sentinel between the elements.
matchesNoSentinel(value, attr_list) ==
    IF value = <<>> THEN Len(attr_list) = 0
    ELSE IF StartsWith(value, QUOTE) /\ EndsWith(value, QUOTE)
         THEN In(Strip1(value), attr_list)
    ELSE IsSubstring(Lower(value), Lower(JoinEmpty(attr_list)))

matches(value, attr_list) ==
    IF value = <<>> THEN Len(attr_list) = 0
    ELSE IF StartsWith(value, QUOTE) /\ EndsWith(value, QUOTE)
         THEN In(Strip1(value), attr_list)
    ELSE IsSubstring(Lower(value), Lower(Join(attr_list, SNOWMAN)))

\* the tag values the drawn fields are made of
ElemPool ==
    { <<>>, <<"a">>, <<"A">>, <<"b">>, <<"a", "b">>, <<"A", "b">>,
      <<"b", "a">>, <<"a", SNOWMAN, "b">>, <<QUOTE, "a", QUOTE>> }

IdleMatches ==
    /\ mValue = <<>>
    /\ mAttr = <<>>
    /\ mDone = FALSE
    /\ mResult = FALSE

InitMatches ==
    /\ mValue \in SeqsUpTo(Chars, MaxValueLen)
    /\ mAttr \in SeqsUpTo(ElemPool, MaxAttrs)
    /\ mDone = FALSE
    /\ mResult = FALSE

ApplyMatches ==
    /\ ~mDone
    /\ mDone' = TRUE
    /\ mResult' = matches(mValue, mAttr)
    /\ UNCHANGED <<mValue, mAttr>>

(***************************************************************************)
(* filter_extensions                                                       *)
(***************************************************************************)
PREFERRED_EXTENSIONS ==
    << <<".", "oga">>, <<".", "ogg">>, <<".", "mp3">>, <<".", "flac">> >>

\* str.rfind(c), one-based: 0 when c is not in p
RFind(p, c) ==
    LET hits == {k \in 1..Len(p) : p[k] = c}
    IN  IF hits = {} THEN 0 ELSE CHOOSE k \in hits : \A j \in hits : j <= k

\* os.path.splitext(p): <<base, ext>>; the dots that lead the file name are
\* not an extension's
splitext(p) ==
    LET sepIndex == RFind(p, "/")
        dotIndex == RFind(p, ".")
    IN  IF /\ dotIndex > sepIndex
           /\ \E k \in (sepIndex + 1)..(dotIndex - 1) : p[k] # "."
        THEN <<SubSeq(p, 1, dotIndex - 1), SubSeq(p, dotIndex, Len(p))>>
        ELSE <<p, <<>> >>

\* the keys of `extensions`, in insertion order
RECURSIVE BaseKeys(_, _)
BaseKeys(files, seen) ==
    IF files = <<>> THEN seen
    ELSE LET base == splitext(files[1])[1]
         IN  BaseKeys(Tail(files), IF In(base, seen) THEN seen ELSE Append(seen, base))

\* extensions[base]: the extensions appended under base, in order
RECURSIVE ExtsOf(_, _)
ExtsOf(files, base) ==
    IF files = <<>> THEN <<>>
    ELSE LET be == splitext(files[1])
         IN  (IF be[1] = base THEN <<be[2]>> ELSE <<>>) \o ExtsOf(Tail(files), base)

\* A plausible slip: the first extension met wins, whatever the priority list.
PickFirstExt(exts) == exts[1]

\* next((e for e in PREFERRED_EXTENSIONS if e in exts), exts[0])
PickExt(exts) ==
    LET pref == {k \in 1..Len(PREFERRED_EXTENSIONS) : In(PREFERRED_EXTENSIONS[k], exts)}
    IN  IF pref = {} THEN exts[1]
        ELSE PREFERRED_EXTENSIONS[CHOOSE k \in pref : \A j \in pref : k <= j]

filter_extensions(files) ==
    LET keys == BaseKeys(files, <<>>)
    IN  [k \in 1..Len(keys) |-> keys[k] \o PickExt(ExtsOf(files, keys[k]))]

\* the paths the drawn inputs are made of
PathPool ==
    { <<"a", ".", "mp3">>, <<"a", ".", "ogg">>, <<"a", ".", "flac">>,
      <<"a", ".", "wav">>, <<"a", ".", "aac">>, <<"a">>,
      <<"b", ".", "oga">>, <<"b", ".", "mp3">>,
      <<".", "mp3">>, <<"d", ".", "x", "/", "a">> }

IdleFilter ==
    /\ feFiles = <<>>
    /\ feDone = FALSE
    /\ feResult = <<>>

InitFilter ==
    /\ feFiles \in SeqsUpTo(PathPool, MaxPaths)
    /\ feDone = FALSE
    /\ feResult = <<>>

ApplyFilter ==
    /\ ~feDone
    /\ feDone' = TRUE
    /\ feResult' = filter_extensions(feFiles)
    /\ UNCHANGED feFiles

(***************************************************************************)
(* match_files and get_results                                             *)
(***************************************************************************)
TAGS == <<"title", "artist", "album", "genre", "composer">>

CacheEntry(path, title, artist, album, genre, composer) ==
    [path |-> path, title |-> title, artist |-> artist, album |-> album,
     genre |-> genre, composer |-> composer]

PlaylistEntry(query, count, options, crop) ==
    [query |-> query, count |-> count, options |-> options, crop |-> crop]

\* gain stands for 10 * log2(arg) - 30 and is kept as its argument
FileWrapper(file, gain, trim_positions, id) ==
    [path |-> file, gain |-> gain, trim_positions |-> trim_positions, id |-> id]

\* a MatchResult (grouped = FALSE) or a GroupedMatchResult (grouped = TRUE);
\* fixed_position is False after __init__
MatchResult(files, grouped) ==
    [files |-> files, grouped |-> grouped, fixed_position |-> FALSE]

RECURSIVE FilterQuery(_, _)
FilterQuery(query, matched_files) ==
    IF query = <<>> THEN matched_files
    ELSE LET attr == query[1][1]
             value == query[1][2]
             Keep(x) == matches(value, x[attr])
         IN  FilterQuery(Tail(query), SelectSeq(matched_files, Keep))

match_files(query, c) ==
    LET matched_files == FilterQuery(query, c)
    IN  [k \in 1..Len(matched_files) |-> matched_files[k].path]

\* str.split(sep)
RECURSIVE Split(_, _)
Split(s, sep) ==
    LET hits == {k \in 1..Len(s) : s[k] = sep}
    IN  IF hits = {} THEN <<s>>
        ELSE LET k == CHOOSE h \in hits : \A j \in hits : h <= j
             IN  <<SubSeq(s, 1, k - 1)>> \o Split(SubSeq(s, k + 1, Len(s)), sep)

\* math.log2(x) raises ValueError unless x > 0
Log2Raises(x) == x <= 0

\* A plausible slip: every '|' entry starts a group of its own.
ComposeNoMerge(res, matched_files, options) ==
    IF In("|", options)
    THEN Append(res, MatchResult(matched_files, TRUE))
    ELSE res \o [k \in 1..Len(matched_files) |->
                    MatchResult(<<matched_files[k]>>, FALSE)]

\* A plausible slip: MatchResult(matched_files) for the whole list of an
\* entry without '|', where the code makes one MatchResult per file.
ComposeWholeList(res, matched_files, options) ==
    IF In("|", options)
    THEN IF res # <<>> /\ res[Len(res)].grouped
         THEN [res EXCEPT ![Len(res)].files = @ \o matched_files]
         ELSE Append(res, MatchResult(matched_files, TRUE))
    ELSE Append(res, MatchResult(matched_files, FALSE))

\* The merge of one entry's files into the running list: a '|' entry extends
\* the last unit when that is a GroupedMatchResult and else appends a new
\* one; any other entry appends one MatchResult per file.
Compose(res, matched_files, options) ==
    IF In("|", options)
    THEN IF res # <<>> /\ res[Len(res)].grouped
         THEN [res EXCEPT ![Len(res)].files = @ \o matched_files]
         ELSE Append(res, MatchResult(matched_files, TRUE))
    ELSE res \o [k \in 1..Len(matched_files) |->
                    MatchResult(<<matched_files[k]>>, FALSE)]

\* One pass of get_results' loop body over `entry`, the n-th entry, from the
\* running list res and the log lg: the new list and log, and whether
\* results[-1] raised IndexError.
LoopBody(res, lg, entry, n, c) ==
    LET matched == filter_extensions(match_files(entry.query, c))
        lg1 == IF Len(matched) # entry.count
               THEN Append(lg, <<"count_mismatch", n>>) ELSE lg
        volume_adjustment == Count(entry.options, "+") - Count(entry.options, "-")
        valueError == volume_adjustment # 0 /\ Log2Raises(volume_adjustment + 8)
        gain == IF volume_adjustment # 0 /\ ~valueError
                THEN <<volume_adjustment + 8>> ELSE <<>>
        lg2 == IF valueError THEN Append(lg1, <<"volume_out_of_bounds", n>>) ELSE lg1
        trim == IF entry.crop # <<>> /\ entry.crop[1] # <<>>
                THEN <<Split(entry.crop[1], ",")>> ELSE <<>>
        matched_files ==
            [k \in 1..Len(matched) |-> FileWrapper(matched[k], gain, trim, <<n, k>>)]
        res1 == Compose(res, matched_files, entry.options)
    IN  IF In("@", entry.options)
        THEN IF res1 = <<>>
             THEN [results |-> res1, log |-> lg2, raised |-> TRUE]
             ELSE [results |-> [res1 EXCEPT ![Len(res1)].fixed_position = TRUE],
                   log |-> lg2, raised |-> FALSE]
        ELSE [results |-> res1, log |-> lg2, raised |-> FALSE]

(***************************************************************************)
(* shuffled and the flattening of load_playlist                            *)
(***************************************************************************)
\* list.insert(position, x), position counted from 0; past the end it appends
Insert(list, position, x) ==
    LET at == IF position > Len(list) THEN Len(list) ELSE position
    IN  SubSeq(list, 1, at) \o <<x>> \o SubSeq(list, at + 1, Len(list))

\* for position, result in fixed: non_fixed.insert(position, result)
RECURSIVE InsertAll(_, _)
InsertAll(fixed, list) ==
    IF fixed = <<>> THEN list
    ELSE InsertAll(Tail(fixed), Insert(list, fixed[1][1], fixed[1][2]))

\* A plausible slip: the fixed units are put back last one first.
shuffledReversed(res, perm) ==
    LET IsFixed(k) == res[k].fixed_position
        fixedAt == SelectSeq([k \in 1..Len(res) |-> k], IsFixed)
        fixed == [j \in 1..Len(fixedAt) |->
                    <<fixedAt[Len(fixedAt) + 1 - j] - 1, res[fixedAt[Len(fixedAt) + 1 - j]]>>]
        NotFixed(r) == ~r.fixed_position
        non_fixed == SelectSeq(res, NotFixed)
        shuffled_nf == [k \in 1..Len(non_fixed) |-> non_fixed[perm[k]]]
    IN  InsertAll(fixed, shuffled_nf)

\* A plausible slip: a draw with replacement (random.choices) for the shuffle:
\* slot k takes the unit the permutation names for slot 1 or 2.
shuffledWithReplacement(res, perm) ==
    LET IsFixed(k) == res[k].fixed_position
        fixedAt == SelectSeq([k \in 1..Len(res) |-> k], IsFixed)
        fixed == [j \in 1..Len(fixedAt) |-> <<fixedAt[j] - 1, res[fixedAt[j]]>>]
        NotFixed(r) == ~r.fixed_position
        non_fixed == SelectSeq(res, NotFixed)
        shuffled_nf == [k \in 1..Len(non_fixed) |->
                          non_fixed[perm[IF k <= 2 THEN 1 ELSE k]]]
    IN  InsertAll(fixed, shuffled_nf)

\* shuffled(results), random.shuffle(non_fixed) having applied the permutation perm
shuffled(res, perm) ==
    LET IsFixed(k) == res[k].fixed_position
        fixedAt == SelectSeq([k \in 1..Len(res) |-> k], IsFixed)
        fixed == [j \in 1..Len(fixedAt) |-> <<fixedAt[j] - 1, res[fixedAt[j]]>>]
        NotFixed(r) == ~r.fixed_position
        non_fixed == SelectSeq(res, NotFixed)
        shuffled_nf == [k \in 1..Len(non_fixed) |-> non_fixed[perm[k]]]
    IN  InsertAll(fixed, shuffled_nf)

NonFixedCount(res) == Cardinality({k \in 1..Len(res) : ~res[k].fixed_position})

\* itertools.chain(*results)
RECURSIVE chain(_)
chain(res) == IF res = <<>> THEN <<>> ELSE res[1].files \o chain(Tail(res))

(***************************************************************************)
(* load_playlist as a state machine: one step per pass of get_results'     *)
(* loop, then the shuffle (or not) and the flattening.                     *)
(***************************************************************************)
\* a library of four tracks: x.mp3 and x.ogg are one track in two formats
Cache1 ==
    << CacheEntry(<<"/", "x", ".", "mp3">>, << <<"s">> >>, << <<"a">> >>, <<>>, <<>>, <<>>),
       CacheEntry(<<"/", "x", ".", "ogg">>, << <<"s">> >>, << <<"a">> >>, <<>>, <<>>, <<>>),
       CacheEntry(<<"/", "y", ".", "mp3">>, << <<"s">> >>, << <<"a">> >>, <<>>, <<>>, <<>>),
       CacheEntry(<<"/", "z", ".", "flac">>, <<>>, << <<"b">> >>, <<>>, <<>>, <<>>) >>

CachePool == {Cache1}

\* artist=a: two files of Cache1; artist=b: one; artist="A": none
QueryPool ==
    { << <<"artist", <<"a">> >> >>,
      << <<"artist", <<"b">> >> >>,
      << <<"artist", <<QUOTE, "A", QUOTE>> >> >> }

OptionsPool == { <<>>, <<"@">>, <<"|">>, <<"|", "@">> }

EntryPool ==
    {PlaylistEntry(q, 1, o, <<>>) : q \in QueryPool, o \in OptionsPool}
    \cup
    { \* ++2:artist=b|title=|crop=1,2
      PlaylistEntry(<< <<"artist", <<"b">> >>, <<"title", <<>> >> >>, 2,
                    <<"+", "+">>, << <<"1", ",", "2">> >>),
      \* --------title=
      PlaylistEntry(<< <<"title", <<>> >> >>, 1,
                    <<"-", "-", "-", "-", "-", "-", "-", "-">>, <<>>) }

IdlePlaylist ==
    /\ cache = <<>>
    /\ entries = <<>>
    /\ idx = 1
    /\ results = <<>>
    /\ log = <<>>
    /\ pc = "idle"
    /\ shuffle = FALSE
    /\ out = <<>>
    /\ final = <<>>

InitPlaylist ==
    /\ cache \in CachePool
    /\ entries \in SeqsUpTo(EntryPool, MaxEntries)
    /\ idx = 1
    /\ results = <<>>
    /\ log = <<>>
    /\ pc = "get_results"
    /\ shuffle = FALSE
    /\ out = <<>>
    /\ final = <<>>

\* one pass of `for entry in entries`
GetResultsStep ==
    /\ pc = "get_results"
    /\ idx <= Len(entries)
    /\ LET r == LoopBody(results, log, entries[idx], idx, cache)
       IN  /\ results' = r.results
           /\ log' = r.log
           /\ pc' = IF r.raised THEN "raised" ELSE "get_results"
           /\ idx' = IF r.raised THEN idx ELSE idx + 1
    /\ UNCHANGED <<cache, entries, shuffle, out, final>>

\* `return results`
GetResultsReturn ==
    /\ pc = "get_results"
    /\ idx > Len(entries)
    /\ pc' = "loaded"
    /\ UNCHANGED <<cache, entries, idx, results, log, shuffle, out, final>>

\* load_playlist called with shuffle=True:
\* `if shuffle: results = shuffled(results)`, then the flattening
ShuffleAndFlatten ==
    /\ pc = "loaded"
    /\ shuffle' = TRUE
    /\ \E perm \in Permutations(1..NonFixedCount(results)) :
          /\ out' = shuffled(results, perm)
          /\ final' = chain(shuffled(results, perm))
    /\ pc' = "done"
    /\ UNCHANGED <<cache, entries, idx, results, log>>

\* load_playlist called with shuffle=False: the flattening alone
Flatten ==
    /\ pc = "loaded"
    /\ shuffle' = FALSE
    /\ out' = results
    /\ final' = chain(results)
    /\ pc' = "done"
    /\ UNCHANGED <<cache, entries, idx, results, log>>

(***************************************************************************)
(* render: every file's sox call runs as limit(call(sox_args)) under       *)
(* asyncio.gather; then the empty file and the concatenation.              *)
(***************************************************************************)
\* asyncio.Semaphore(8)
SemaphoreValue == 8

IdleRender ==
    /\ nFiles = 0
    /\ task = <<>>
    /\ proc = <<>>
    /\ sem_value = SemaphoreValue
    /\ renderPc = "idle"

\* render awaits gather: a task per file is created, none has run yet
InitRender ==
    /\ nFiles \in 0..MaxFiles
    /\ task = [i \in 1..nFiles |-> "created"]
    /\ proc = [i \in 1..nFiles |-> "none"]
    /\ sem_value = SemaphoreValue
    /\ renderPc = "gather"

\* A plausible slip: the task goes on to its coroutine without the semaphore.
AcquireUnlimited(i) ==
    /\ renderPc = "gather"
    /\ task[i] = "created"
    /\ \A j \in 1..(i - 1) : task[j] # "created"
    /\ sem_value' = sem_value - 1
    /\ task' = [task EXCEPT ![i] = "admitted"]
    /\ UNCHANGED <<nFiles, proc, renderPc>>

\* `async with limit_semaphore`: the tasks reach it in the order gather made them
Acquire(i) ==
    /\ renderPc = "gather"
    /\ task[i] = "created"
    /\ \A j \in 1..(i - 1) : task[j] # "created"
    /\ sem_value > 0
    /\ sem_value' = sem_value - 1
    /\ task' = [task EXCEPT ![i] = "admitted"]
    /\ UNCHANGED <<nFiles, proc, renderPc>>

\* `await coro`: call(sox_args) runs to asyncio.create_subprocess_exec
StartProcess(i) ==
    /\ renderPc = "gather"
    /\ task[i] = "admitted"
    /\ proc[i] = "none"
    /\ proc' = [proc EXCEPT ![i] = "running"]
    /\ UNCHANGED <<nFiles, task, sem_value, renderPc>>

\* proc.wait() returns ret: call returns or raises RuntimeError, and the
\* semaphore is released on the way out of `async with`
ProcessExit(i, ret) ==
    /\ renderPc = "gather"
    /\ proc[i] = "running"
    /\ proc' = [proc EXCEPT ![i] = IF ret = 0 THEN "exit0" ELSE "exit1"]
    /\ task' = [task EXCEPT ![i] = IF ret = 0 THEN "done" ELSE "failed"]
    /\ sem_value' = sem_value + 1
    /\ UNCHANGED <<nFiles, renderPc>>

\* A plausible slip: gather(..., return_exceptions=True), which hands a
\* failed task's exception back as a result.
GatherReturnExceptions ==
    /\ renderPc = "gather"
    /\ \A i \in 1..nFiles : task[i] \in {"done", "failed"}
    /\ renderPc' = "empty"
    /\ UNCHANGED <<nFiles, task, proc, sem_value>>

\* gather's result: every task returned; render goes on to call(empty_args)
GatherReturn ==
    /\ renderPc = "gather"
    /\ \A i \in 1..nFiles : task[i] = "done"
    /\ renderPc' = "empty"
    /\ UNCHANGED <<nFiles, task, proc, sem_value>>

\* gather raises the first exception of a task; render ends with it, and
\* asyncio.run cancels the tasks left
GatherRaise ==
    /\ renderPc = "gather"
    /\ \E i \in 1..nFiles : task[i] = "failed"
    /\ renderPc' = "error"
    /\ UNCHANGED <<nFiles, task, proc, sem_value>>

\* call(empty_args) ends; on 0 render goes on to the concatenation
EmptyExit(ret) ==
    /\ renderPc = "empty"
    /\ renderPc' = IF ret = 0 THEN "concat" ELSE "error"
    /\ UNCHANGED <<nFiles, task, proc, sem_value>>

\* call(sox_args) of the concatenation ends
ConcatExit(ret) ==
    /\ renderPc = "concat"
    /\ renderPc' = IF ret = 0 THEN "done" ELSE "error"
    /\ UNCHANGED <<nFiles, task, proc, sem_value>>

(***************************************************************************)
(* PlaylistEntry.from_string and parse_entries                             *)
(*                                                                         *)
(* A playlist line is a sequence of tokens: a word token ("artist", "foo", *)
(* "2") stands for a run of word characters, every other token is one      *)
(* character.  Adjacent word tokens make one longer word, which is none of *)
(* the words of TAGS.  A tag is kept as its run of tokens until the entry  *)
(* is built.                                                               *)
(***************************************************************************)
KNOWN_OPTIONS == <<"@", "|", "+", "-">>

NEWLINE == "\n"

Whitespace == {" ", NEWLINE}

Digits == <<"0", "1", "2", "3", "4", "5", "6", "7", "8", "9">>

\* the characters of this model that \w does not match
NonWordChars == {"=", "|", ":", "@", "+", "-", "#", ",", " ", NEWLINE}

\* \w
IsWord(c) == c \notin NonWordChars

\* \d
IsDigit(c) == In(c, Digits)

\* str.strip()
RECURSIVE Strip(_)
Strip(s) ==
    IF s = <<>> THEN s
    ELSE IF s[1] \in Whitespace THEN Strip(Tail(s))
    ELSE IF s[Len(s)] \in Whitespace THEN Strip(SubSeq(s, 1, Len(s) - 1))
    ELSE s

\* int(s) of a run of digits
RECURSIVE int(_)
int(s) ==
    IF s = <<>> THEN 0
    ELSE LET d == CHOOSE k \in 1..Len(Digits) : Digits[k] = s[Len(s)]
         IN  10 * int(SubSeq(s, 1, Len(s) - 1)) + (d - 1)

\* part.split("=", maxsplit=1)
SplitFirst(part, sep) ==
    LET hits == {k \in 1..Len(part) : part[k] = sep}
    IN  IF hits = {} THEN <<part>>
        ELSE LET k == CHOOSE h \in hits : \A j \in hits : h <= j
             IN  <<SubSeq(part, 1, k - 1), SubSeq(part, k + 1, Len(part))>>

\* [\w]+=[^|]* matches the whole of part, which holds no '|'
IsClause(part) ==
    \E k \in 2..Len(part) :
        /\ part[k] = "="
        /\ \A j \in 1..(k - 1) : IsWord(part[j])

\* _matcher: re.fullmatch of
\*   (?P<options>[^\w]+)? (?:(?P<count>[\d]+):)? (?P<query>[\w]+=[^|]*(?:\|[\w]+=[^|]*)*)
\* The query begins with a word character, so the options are all the
\* leading characters that are not word characters, and the count is the run
\* of digits that follows them when a ':' ends it.  A group that did not
\* take part is <<>> (None), one that did is <<text>>.
matcher(string) ==
    LET o == IF \A k \in 1..Len(string) : ~IsWord(string[k]) THEN Len(string)
             ELSE (CHOOSE k \in 1..Len(string) :
                      IsWord(string[k]) /\ \A j \in 1..(k - 1) : ~IsWord(string[j])) - 1
        d == IF \A k \in (o + 1)..Len(string) : IsDigit(string[k]) THEN Len(string)
             ELSE (CHOOSE k \in (o + 1)..Len(string) :
                      ~IsDigit(string[k]) /\ \A j \in (o + 1)..(k - 1) : IsDigit(string[j])) - 1
        counted == d > o /\ d < Len(string) /\ string[d + 1] = ":"
        q == IF counted THEN d + 1 ELSE o
        query == SubSeq(string, q + 1, Len(string))
        parts == Split(query, "|")
    IN  [match |-> query # <<>> /\ \A k \in 1..Len(parts) : IsClause(parts[k]),
         options |-> IF o > 0 THEN <<SubSeq(string, 1, o)>> ELSE <<>>,
         count |-> IF counted THEN <<SubSeq(string, o + 1, d)>> ELSE <<>>,
         query |-> query]

\* A plausible slip: any(...) for all(...), one known tag is enough.
TagsValidAny(query) == \E k \in 1..Len(query) : Len(query[k][1]) = 1 /\ In(query[k][1][1], TAGS)

\* all(tag in TAGS for tag, _ in query)
TagsValid(query) == \A k \in 1..Len(query) : Len(query[k][1]) = 1 /\ In(query[k][1][1], TAGS)

\* PlaylistEntry.from_string: raised is "" when an entry is returned
from_string(string) ==
    LET m == matcher(string)
        query_str == m.query
        count == IF m.count # <<>> THEN int(m.count[1]) ELSE 1
        parts == Split(query_str, "|")
        query_parts == [k \in 1..Len(parts) |-> SplitFirst(parts[k], "=")]
        NotCrop(p) == p[1] # <<"crop">>
        IsCrop(p) == p[1] = <<"crop">>
        query == SelectSeq(query_parts, NotCrop)
        crops == SelectSeq(query_parts, IsCrop)
        crop == IF crops # <<>> THEN <<crops[1][2]>> ELSE <<>>
        options == IF m.options # <<>> THEN m.options[1] ELSE <<>>
        unknown_options == {options[k] : k \in 1..Len(options)}
                               \ {KNOWN_OPTIONS[k] : k \in 1..Len(KNOWN_OPTIONS)}
    IN  IF m.match
        THEN IF ~TagsValid(query)
             THEN [raised |-> "QueryInvalidTagError", entry |-> <<>>, warned |-> FALSE]
             ELSE [raised |-> "",
                   entry |-> <<PlaylistEntry([k \in 1..Len(query) |->
                                                 <<query[k][1][1], query[k][2]>>],
                                             count, options, crop)>>,
                   warned |-> unknown_options # {}]
        ELSE [raised |-> "QueryParseError", entry |-> <<>>, warned |-> FALSE]

\* the tokens the drawn line is made of
LineChars == {"artist", "foo", "crop", "2", "=", "|", ":"}

\* the lines before the drawn one: an entry and a comment
LinesBefore ==
    << <<"@", "title", "=", "foo", NEWLINE>>,
       <<"#", "artist", "=", "foo", NEWLINE>> >>

\* the lines after the drawn one: a blank line and an entry
LinesAfter ==
    << <<" ", NEWLINE>>,
       <<" ", "2", ":", "artist", "=", "foo", "|", "crop", "=", "2", ",", "2", NEWLINE>> >>

IdleParse ==
    /\ lines = <<>>
    /\ line_number = 1
    /\ parsed = <<>>
    /\ parseLog = <<>>
    /\ parsePc = "idle"

InitParse ==
    /\ \E w \in SeqsUpTo(LineChars, MaxLineLen) :
           lines = LinesBefore \o << w \o <<NEWLINE>> >> \o LinesAfter
    /\ line_number = 1
    /\ parsed = <<>>
    /\ parseLog = <<>>
    /\ parsePc = "parse_entries"

\* one iteration of parse_entries' loop
ParseLine ==
    /\ parsePc = "parse_entries"
    /\ line_number <= Len(lines)
    /\ LET line == Strip(lines[line_number])
           r == from_string(line)
       IN  IF line = <<>> \/ StartsWith(line, "#")
           THEN UNCHANGED <<parsed, parseLog>>
           ELSE IF r.raised = "QueryInvalidTagError"
           THEN /\ parseLog' = Append(parseLog, <<"invalid_tag", line_number>>)
                /\ UNCHANGED parsed
           ELSE IF r.raised = "QueryParseError"
           THEN /\ parseLog' = Append(parseLog, <<"parse_error", line_number>>)
                /\ UNCHANGED parsed
           ELSE /\ parsed' = Append(parsed, r.entry[1])
                /\ parseLog' = IF r.warned
                               THEN Append(parseLog, <<"unknown_options", line_number>>)
                               ELSE parseLog
    /\ line_number' = line_number + 1
    /\ UNCHANGED <<lines, parsePc>>

\* return entries
ParseReturn ==
    /\ parsePc = "parse_entries"
    /\ line_number > Len(lines)
    /\ parsePc' = "returned"
    /\ UNCHANGED <<lines, line_number, parsed, parseLog>>

(***************************************************************************)
(* Specifications.                                                         *)
(***************************************************************************)
Init == InitPlaylist /\ IdleMatches /\ IdleFilter /\ IdleRender /\ IdleParse

Next ==
    \/ GetResultsStep /\ UNCHANGED <<mVars, feVars, rVars, pVars>>
    \/ GetResultsReturn /\ UNCHANGED <<mVars, feVars, rVars, pVars>>
    \/ ShuffleAndFlatten /\ UNCHANGED <<mVars, feVars, rVars, pVars>>
    \/ Flatten /\ UNCHANGED <<mVars, feVars, rVars, pVars>>

Spec == Init /\ [][Next]_vars

MatchesInit == InitMatches /\ IdlePlaylist /\ IdleFilter /\ IdleRender /\ IdleParse

MatchesNext == ApplyMatches /\ UNCHANGED <<feVars, plVars, rVars, pVars>>

SpecMatches == MatchesInit /\ [][MatchesNext]_vars

FilterInit == InitFilter /\ IdlePlaylist /\ IdleMatches /\ IdleRender /\ IdleParse

FilterNext == ApplyFilter /\ UNCHANGED <<mVars, plVars, rVars, pVars>>

SpecFilter == FilterInit /\ [][FilterNext]_vars

RenderInit == InitRender /\ IdlePlaylist /\ IdleMatches /\ IdleFilter /\ IdleParse

RenderNext ==
    \/ \E i \in 1..nFiles : Acquire(i) /\ UNCHANGED <<mVars, feVars, plVars, pVars>>
    \/ \E i \in 1..nFiles : StartProcess(i) /\ UNCHANGED <<mVars, feVars, plVars, pVars>>
    \/ \E i \in 1..nFiles, ret \in {0, 1} :
          ProcessExit(i, ret) /\ UNCHANGED <<mVars, feVars, plVars, pVars>>
    \/ GatherReturn /\ UNCHANGED <<mVars, feVars, plVars, pVars>>
    \/ GatherRaise /\ UNCHANGED <<mVars, feVars, plVars, pVars>>
    \/ \E ret \in {0, 1} : EmptyExit(ret) /\ UNCHANGED <<mVars, feVars, plVars, pVars>>
    \/ \E ret \in {0, 1} : ConcatExit(ret) /\ UNCHANGED <<mVars, feVars, plVars, pVars>>

SpecRender == RenderInit /\ [][RenderNext]_vars

ParseInit == InitParse /\ IdlePlaylist /\ IdleMatches /\ IdleFilter /\ IdleRender

ParseNext ==
    \/ ParseLine /\ UNCHANGED <<mVars, feVars, plVars, rVars>>
    \/ ParseReturn /\ UNCHANGED <<mVars, feVars, plVars, rVars>>

SpecParse == ParseInit /\ [][ParseNext]_vars

(***************************************************************************)
(* Claims about matches (checked under SpecMatches).                       *)
(***************************************************************************)
\* value is wrapped in a pair of double quotes
Wrapped(value) ==
    Len(value) >= 2 /\ value[1] = QUOTE /\ value[Len(value)] = QUOTE

\* value is quoted as matches tests it: it starts and ends with a double quote
Quoted(value) ==
    Len(value) >= 1 /\ value[1] = QUOTE /\ value[Len(value)] = QUOTE

Unwrapped(value) == [k \in 1..(Len(value) - 2) |-> value[k + 1]]

EqualIgnoringCase(s, t) ==
    Len(s) = Len(t) /\ \A k \in 1..Len(s) : LowerChar(s[k]) = LowerChar(t[k])

\* sub occurs in s, letter case ignored
OccursIgnoringCase(sub, s) ==
    \E off \in 0..(Len(s) - Len(sub)) :
        \A k \in 1..Len(sub) : LowerChar(sub[k]) = LowerChar(s[off + k])

\* C3 as stated: a quoted value matches iff the unwrapped value equals some
\* element of the field, letter case ignored.
C3_QuotedIgnoresCase ==
    (mDone /\ Wrapped(mValue)) =>
        (mResult <=> \E k \in 1..Len(mAttr) : EqualIgnoringCase(Unwrapped(mValue), mAttr[k]))

\* C3 as amended: a value wrapped in a pair of double quotes matches iff the
\* unwrapped value is, character for character (letter case included), one
\* of the elements of the field.
C3_QuotedExact ==
    (mDone /\ Wrapped(mValue)) =>
        (mResult <=> \E k \in 1..Len(mAttr) : Unwrapped(mValue) = mAttr[k])

\* C3's case: a quoted value that differs from an element in letter case
\* only, and has been found not to match.
C3_Witness ==
    /\ mDone
    /\ Wrapped(mValue)
    /\ Len(mValue) = 3
    /\ \E k \in 1..Len(mAttr) :
          /\ EqualIgnoringCase(Unwrapped(mValue), mAttr[k])
          /\ Unwrapped(mValue) # mAttr[k]
    /\ ~mResult

\* C10 as stated: an unquoted, non-empty value matches iff it occurs, letter
\* case ignored, within one single element of the field.
C10_SubstringOfOneElement ==
    (mDone /\ mValue # <<>> /\ ~Quoted(mValue)) =>
        (mResult <=> \E k \in 1..Len(mAttr) : OccursIgnoringCase(mValue, mAttr[k]))

\* C10 as amended: an unquoted, non-empty value that does not hold the
\* sentinel character matches iff it occurs, letter case ignored, within one
\* single element of the field (so never across two elements, and never in
\* an empty field).
C10_SubstringWithoutSentinel ==
    (/\ mDone
     /\ mValue # <<>>
     /\ ~Quoted(mValue)
     /\ \A k \in 1..Len(mValue) : mValue[k] # SNOWMAN) =>
        (mResult <=> \E k \in 1..Len(mAttr) : OccursIgnoringCase(mValue, mAttr[k]))

\* C10's case: the value is the end of one element followed by the start of
\* the next, occurs in neither, and has been found not to match.
C10_Witness ==
    /\ mDone
    /\ ~Quoted(mValue)
    /\ \A k \in 1..Len(mValue) : mValue[k] # SNOWMAN
    /\ Len(mAttr) = 2
    /\ mAttr[1] # <<>>
    /\ mAttr[2] # <<>>
    /\ mValue = mAttr[1] \o mAttr[2]
    /\ ~mResult

(***************************************************************************)
(* Claims about filter_extensions (checked under SpecFilter).              *)
(***************************************************************************)
BaseOf(p) == splitext(p)[1]
ExtOf(p) == splitext(p)[2]

\* the place of ext in the priority list, 0 when it is not in it
Priority(ext) ==
    IF \E k \in 1..Len(PREFERRED_EXTENSIONS) : PREFERRED_EXTENSIONS[k] = ext
    THEN CHOOSE k \in 1..Len(PREFERRED_EXTENSIONS) : PREFERRED_EXTENSIONS[k] = ext
    ELSE 0

\* the indices of the files that share p's base path
SameBase(files, p) == {k \in 1..Len(files) : BaseOf(files[k]) = BaseOf(p)}

Least(S) == CHOOSE k \in S : \A j \in S : k <= j

\* C8: filter_extensions returns one path per distinct base path, in the
\* order in which the base paths first appear; the path kept for a base is
\* the input path of that base whose extension is earliest in the priority
\* list, or the first input path of that base when none is in the list.
C8_OnePerBaseByPriority ==
    feDone =>
        /\ \A k \in 1..Len(feFiles) :
              \E j \in 1..Len(feResult) : BaseOf(feResult[j]) = BaseOf(feFiles[k])
        /\ \A i, j \in 1..Len(feResult) :
              i # j => BaseOf(feResult[i]) # BaseOf(feResult[j])
        /\ \A j \in 1..Len(feResult) : SameBase(feFiles, feResult[j]) # {}
        /\ \A i, j \in 1..Len(feResult) :
              i < j => Least(SameBase(feFiles, feResult[i]))
                          < Least(SameBase(feFiles, feResult[j]))
        /\ \A j \in 1..Len(feResult) :
              LET same == SameBase(feFiles, feResult[j])
                  listed == {k \in same : Priority(ExtOf(feFiles[k])) > 0}
              IN  IF listed = {}
                  THEN feResult[j] = feFiles[Least(same)]
                  ELSE \E k \in listed :
                          /\ feResult[j] = feFiles[k]
                          /\ \A m \in listed :
                                Priority(ExtOf(feFiles[k])) <= Priority(ExtOf(feFiles[m]))

\* C8's case: three paths of two bases; the first base has two formats and
\* the one kept is not the first met.
C8_Witness ==
    /\ feDone
    /\ Len(feFiles) = 3
    /\ Len(feResult) = 2
    /\ BaseOf(feFiles[1]) = BaseOf(feFiles[3])
    /\ feFiles[1] # feFiles[3]
    /\ feResult[1] = feFiles[3]
    /\ feResult[2] = feFiles[2]

(***************************************************************************)
(* Claims about get_results, shuffled and load_playlist (under Spec).      *)
(***************************************************************************)
\* the n-th entry carries the '|' option
Grouped(n) == \E k \in 1..Len(entries[n].options) : entries[n].options[k] = "|"

\* the n-th entry carries the '@' option
Fixing(n) == \E k \in 1..Len(entries[n].options) : entries[n].options[k] = "@"

\* the files the n-th entry matches, de-duplicated
Matched(n) == filter_extensions(match_files(entries[n].query, cache))

\* the entries whose loop pass has ended
Processed == 1..(idx - 1)

\* C2: get_results processes every entry and returns without raising.
C2_NeverRaises == pc # "raised"

\* C5 as stated: every unit of the running result list holds at least one
\* file.
C5_NoEmptyUnit == \A k \in 1..Len(results) : Len(results[k].files) >= 1

\* C5 as amended: every unit of the running result list that is not a
\* GroupedMatchResult holds exactly one file; a unit without files is a
\* GroupedMatchResult, and there is one only after a '|' entry that matched
\* no file.
C5_OnlyGroupsEmpty ==
    \A k \in 1..Len(results) :
        /\ ~results[k].grouped => Len(results[k].files) = 1
        /\ results[k].files = <<>> =>
              /\ results[k].grouped
              /\ \E n \in Processed : Grouped(n) /\ Matched(n) = <<>>

\* C5's case: an entry without '|' has matched no file and added no unit,
\* and an empty group stands beside a unit of one file.
C5_Witness ==
    /\ \E n \in Processed : ~Grouped(n) /\ ~Fixing(n) /\ Matched(n) = <<>>
    /\ \E k \in 1..Len(results) : results[k].files = <<>>
    /\ \E k \in 1..Len(results) : ~results[k].grouped

\* C1: shuffled leaves every fixed-position unit at the index it had.
C1_FixedStayInPlace ==
    (pc = "done" /\ shuffle) =>
        /\ Len(out) = Len(results)
        /\ \A k \in 1..Len(results) :
              results[k].fixed_position => out[k] = results[k]

\* C1's case: two fixed units, not the first ones of the list, kept in place
\* by a shuffle that moved other units.
C1_Witness ==
    /\ pc = "done"
    /\ shuffle
    /\ out # results
    /\ \E i, j \in 2..Len(results) :
          /\ i < j
          /\ results[i].fixed_position
          /\ results[j].fixed_position
          /\ ~results[1].fixed_position

CountIn(seq, x) == Cardinality({k \in 1..Len(seq) : seq[k] = x})

\* C9: with no fixed-position unit, the flattened shuffled list holds the
\* same multiset of files as the flattened unshuffled list.
C9_ShufflePreservesBag ==
    (/\ pc = "done"
     /\ shuffle
     /\ \A k \in 1..Len(results) : ~results[k].fixed_position) =>
        LET flat == chain(results)
        IN  /\ Len(final) = Len(flat)
            /\ \A k \in 1..Len(flat) : CountIn(final, flat[k]) = CountIn(flat, flat[k])

\* C9's case: three units or more, none fixed, shuffled into another order.
C9_Witness ==
    /\ pc = "done"
    /\ shuffle
    /\ \A k \in 1..Len(results) : ~results[k].fixed_position
    /\ Len(results) >= 3
    /\ final # chain(results)

\* entries m and n lie in one run of consecutive '|' entries
SameRun(m, n) ==
    \A j \in (IF m < n THEN m ELSE n)..(IF m < n THEN n ELSE m) : Grouped(j)

\* the places in the final sequence of the files of n's run
RunPositions(n) == {p \in 1..Len(final) : SameRun(final[p].id[1], n)}

\* file a comes before file b by entry, then by match
Before(a, b) == a[1] < b[1] \/ (a[1] = b[1] /\ a[2] < b[2])

\* the set P of places is an interval
Contiguous(P) ==
    P = {} \/ \E lo \in P : \E hi \in P : P = lo..hi

\* C4: shuffled or not, the files of a run of consecutive '|' entries are one
\* contiguous block of the final sequence, in entry order and then match
\* order, and every file the run put into the result list is in the block.
C4_GroupStaysTogether ==
    pc = "done" =>
        \A n \in 1..Len(entries) :
            Grouped(n) =>
                LET P == RunPositions(n)
                IN  /\ Contiguous(P)
                    /\ \A p \in P : (p + 1) \in P =>
                          Before(final[p].id, final[p + 1].id)
                    /\ \A u \in 1..Len(results) :
                          \A k \in 1..Len(results[u].files) :
                              SameRun(results[u].files[k].id[1], n) =>
                                  \E p \in P : final[p] = results[u].files[k]

\* C4's case: two consecutive '|' entries with three files between them,
\* moved as one block by the shuffle.
C4_Witness ==
    /\ pc = "done"
    /\ shuffle
    /\ final # chain(results)
    /\ \E n \in 1..(Len(entries) - 1) :
          /\ Grouped(n)
          /\ Grouped(n + 1)
          /\ Matched(n) # <<>>
          /\ Matched(n + 1) # <<>>
          /\ Cardinality(RunPositions(n)) >= 3
          /\ 1 \notin RunPositions(n)

(***************************************************************************)
(* Claims about render (checked under SpecRender).                         *)
(***************************************************************************)
Running == {i \in 1..nFiles : proc[i] = "running"}

\* C6: the empty-file and concatenation calls start only when every
\* per-file call has exited with 0; once one has exited non-zero they never
\* start, and render ends with the error.
C6_ConcatAfterAllSucceed ==
    /\ renderPc \in {"empty", "concat", "done"} =>
          \A i \in 1..nFiles : proc[i] = "exit0"
    /\ (\E i \in 1..nFiles : proc[i] = "exit1") =>
          \/ renderPc = "error"
          \/ /\ renderPc = "gather"
             /\ ENABLED (GatherRaise /\ UNCHANGED <<mVars, feVars, plVars, pVars>>)

\* C6's case: every per-file call but one has exited with 0, that one has
\* exited non-zero, and render has ended with the error.
C6_Witness ==
    /\ renderPc = "error"
    /\ nFiles >= 3
    /\ \E i \in 1..nFiles :
          /\ proc[i] = "exit1"
          /\ \A j \in 1..nFiles : j # i => proc[j] = "exit0"

\* C7: never more than 8 per-file calls run at once, and a task the
\* semaphore has not admitted has started no subprocess.
C7_AtMostEightRunning ==
    /\ Cardinality(Running) <= 8
    /\ \A i \in 1..nFiles : task[i] = "created" => proc[i] = "none"

\* C7's case: eight subprocesses run and a ninth task waits for the
\* semaphore.
C7_Witness ==
    /\ Cardinality(Running) = 8
    /\ sem_value = 0
    /\ \E i \in 1..nFiles : task[i] = "created"

(***************************************************************************)
(* Claims about from_string and parse_entries (checked under SpecParse).   *)
(***************************************************************************)
\* the tags a clause may carry, as runs of tokens
AllowedTags ==
    {<<"title">>, <<"artist">>, <<"album">>, <<"genre">>, <<"composer">>, <<"crop">>}

\* clause reads tag=value: a tag of word characters, '=', a value without '|'
ClauseForm(clause) ==
    /\ \A j \in 1..Len(clause) : clause[j] # "|"
    /\ \E k \in 2..Len(clause) :
           clause[k] = "=" /\ \A j \in 1..(k - 1) : IsWord(clause[j])

\* the tag of a clause that reads tag=value
ClauseTag(clause) ==
    LET k == CHOOSE h \in 1..Len(clause) :
                 clause[h] = "=" /\ \A j \in 1..(h - 1) : clause[j] # "="
    IN  SubSeq(clause, 1, k - 1)

\* s reads [options][count:]tag=value(|tag=value)*, its first i characters
\* being the options and the next j - i the count and its ':'
LineForm(s, i, j) ==
    /\ \A k \in 1..i : ~IsWord(s[k])
    /\ \/ j = i
       \/ j >= i + 2 /\ s[j] = ":" /\ \A k \in (i + 1)..(j - 1) : IsDigit(s[k])
    /\ j < Len(s)
    /\ LET clauses == Split(SubSeq(s, j + 1, Len(s)), "|")
       IN  \A k \in 1..Len(clauses) : ClauseForm(clauses[k])

\* s has that form and one of its clauses carries a tag outside AllowedTags
InvalidTagLine(s) ==
    \E i \in 0..Len(s) : \E j \in i..Len(s) :
        /\ LineForm(s, i, j)
        /\ LET clauses == Split(SubSeq(s, j + 1, Len(s)), "|")
           IN  \E k \in 1..Len(clauses) : ClauseTag(clauses[k]) \notin AllowedTags

\* the entries of the lines of ls that parse, in the order of the lines
RECURSIVE EntriesOf(_)
EntriesOf(ls) ==
    IF ls = <<>> THEN <<>>
    ELSE LET line == Strip(ls[1])
         IN  (IF line = <<>> \/ StartsWith(line, "#") THEN <<>>
              ELSE from_string(line).entry) \o EntriesOf(Tail(ls))

\* ls without its k-th line
Without(ls, k) == SubSeq(ls, 1, k - 1) \o SubSeq(ls, k + 1, Len(ls))

HoldsFileOf(unit, n) == \E f \in 1..Len(unit.files) : unit.files[f].id[1] = n

\* C12: processing one entry of get_results leaves the fixed_position flag
\* of every unit that holds no file matched by that entry as it was; so an
\* '@' entry that matches no file fixes no unit of the earlier entries.
C12_FixedOnlyByOwnEntry ==
    [][\A k \in 1..Len(results) :
           (k <= Len(results') /\ ~HoldsFileOf(results'[k], idx)) =>
               results'[k].fixed_position = results[k].fixed_position]_vars

====
